---- MODULE Spec2Model ----
(***************************************************************************)
(* A model of coredump-parser (src/src/lib.rs): parse_coredump, read_frames *)
(* and parse_backtrace_notes.                                               *)
(*                                                                          *)
(* A u64 is kept as its eight bytes, least significant first, so that the   *)
(* full 64-bit width of the arithmetic of the decoder is modelled with     *)
(* small integers only.  A descriptor is the sequence of its bytes.         *)
(***************************************************************************)
EXTENDS Integers, Sequences, FiniteSets

(***************************************************************************)
(* Program constants.                                                       *)
(***************************************************************************)
\* size of the value read by read_u64
U64Bytes == 8
\* the size of one fixed record, `number_of_entries * 24`
RecordBytes == 24
\* object::elf file types, segment types and note types
ET_EXEC == 2
ET_DYN == 3
ET_CORE == 4
PT_LOAD == 1
PT_NOTE == 4
NT_PRSTATUS == 1
NT_FILE == 1179208773
\* char::REPLACEMENT_CHARACTER, U+FFFD
ReplacementChar == 65533
\* NativeEndian of byteorder is the byte order of the build target
NativeBigEndian == FALSE

(***************************************************************************)
(* Bounds of the model.                                                     *)
(***************************************************************************)
MaxCount == 2
MaxRecords == 2
MaxPaths == 2
MaxCut == 1
MaxPhdrs == 2
MaxNotes == 2

(***************************************************************************)
(* 64-bit unsigned values as byte sequences.                                *)
(***************************************************************************)
RECURSIVE Digits(_, _)
Digits(n, k) == IF k = 0 THEN <<>> ELSE <<n % 256>> \o Digits(n \div 256, k - 1)

\* the u64 of a small natural number
U64(n) == Digits(n, U64Bytes)

Reverse(s) == [i \in 1..Len(s) |-> s[Len(s) + 1 - i]]

\* the value of eight bytes in the byte order of the target, and back
FromNative(bs) == IF NativeBigEndian THEN Reverse(bs) ELSE bs
ToNative(v) == IF NativeBigEndian THEN Reverse(v) ELSE v

RECURSIVE MulCarry(_, _, _)
MulCarry(v, m, carry) ==
    IF v = <<>> THEN [val |-> <<>>, carry |-> carry]
    ELSE LET t == Head(v) * m + carry
             r == MulCarry(Tail(v), m, t \div 256)
         IN  [val |-> <<t % 256>> \o r.val, carry |-> r.carry]

\* u64 * small constant: the wrapped product and whether it overflowed
overflowing_mul(v, m) ==
    LET r == MulCarry(v, m, 0) IN [val |-> r.val, overflow |-> r.carry # 0]

\* u64 + small value: the wrapped sum and whether it overflowed
overflowing_add(v, a) ==
    LET r == MulCarry(v, 1, a) IN [val |-> r.val, overflow |-> r.carry # 0]

\* a < b on u64 values
RECURSIVE U64Less(_, _)
U64Less(a, b) ==
    IF a = <<>> THEN FALSE
    ELSE LET n == Len(a)
         IN  IF a[n] # b[n] THEN a[n] < b[n]
             ELSE U64Less(SubSeq(a, 1, n - 1), SubSeq(b, 1, n - 1))

\* min(v, len) for a u64 v and a buffer length len (below 2^24):
\* Cursor clamps its position to the length of the buffer when it reads
ClampPosition(v, len) ==
    LET low == v[1] + 256 * v[2] + 65536 * v[3]
    IN  IF (\A i \in 4..U64Bytes : v[i] = 0) /\ low < len THEN low ELSE len

(***************************************************************************)
(* The Mapping Decoder: parse_backtrace_notes.                              *)
(***************************************************************************)
\* Cursor::read_u64::<NativeEndian> at position pos (0-based) of buf:
\* eight bytes, or the UnexpectedEof error when fewer are left
read_u64(buf, pos) ==
    IF pos + U64Bytes <= Len(buf)
    THEN [ok |-> TRUE, val |-> FromNative(SubSeq(buf, pos + 1, pos + U64Bytes)),
          pos |-> pos + U64Bytes]
    ELSE [ok |-> FALSE, val |-> U64(0), pos |-> pos]

\* String::from_utf8_lossy on bytes that hold no multi-byte UTF-8 sequence:
\* an ASCII byte is its character, any other byte is invalid on its own and
\* is replaced by U+FFFD
from_utf8_lossy(bs) ==
    [i \in 1..Len(bs) |-> IF bs[i] < 128 THEN bs[i] ELSE ReplacementChar]

\* the results of the decoder: a table, an error value, or a panic
DecodeOk(page_size, frames) ==
    [kind |-> "Ok", err |-> "", page_size |-> page_size, frames |-> frames]
DecodeErr(e) ==
    [kind |-> "Err", err |-> e, page_size |-> <<>>, frames |-> <<>>]
DecodePanic(msg) ==
    [kind |-> "Panic", err |-> msg, page_size |-> <<>>, frames |-> <<>>]

\* `cursor.position() + number_of_entries * 24` in u64
name_position(number_of_entries, cursor_position) ==
    LET m == overflowing_mul(number_of_entries, RecordBytes)
        a == overflowing_add(m.val, cursor_position)
    IN  [val |-> a.val, overflow |-> m.overflow \/ a.overflow]

\* BufRead::read_until(0): the 0-based index of the first NUL at or after
\* pos, or the length of the buffer when there is none
RECURSIVE read_until(_, _)
read_until(buf, pos) ==
    IF pos >= Len(buf) THEN Len(buf)
    ELSE IF buf[pos + 1] = 0 THEN pos
    ELSE read_until(buf, pos + 1)

\* `for name in name_cursor.split(0).flatten() { ... }`: npos is the
\* position of name_cursor, cpos that of cursor
RECURSIVE frames_loop(_, _, _, _, _)
frames_loop(buf, npos, cpos, page_size, frames) ==
    IF npos >= Len(buf) THEN DecodeOk(page_size, frames)
    ELSE LET e == read_until(buf, npos)
             name == SubSeq(buf, npos + 1, e)
             next == IF e < Len(buf) THEN e + 1 ELSE e
             start == read_u64(buf, cpos)
             end == read_u64(buf, start.pos)
             offset == read_u64(buf, end.pos)
         IN  IF ~start.ok \/ ~end.ok \/ ~offset.ok
             THEN DecodeErr("UnexpectedEof")
             ELSE frames_loop(buf, next, offset.pos, page_size,
                      Append(frames, [start |-> start.val, end |-> end.val,
                                      offset |-> offset.val,
                                      name |-> from_utf8_lossy(name)]))

\* parse_backtrace_notes on the descriptor bytes desc.  checks: the build
\* has overflow checks (a debug build panics on overflow, a release build
\* wraps around)
parse_backtrace_notes(desc, checks) ==
    LET number_of_entries == read_u64(desc, 0)
        page_size == read_u64(desc, number_of_entries.pos)
        np == name_position(number_of_entries.val, page_size.pos)
    IN  IF ~number_of_entries.ok \/ ~page_size.ok THEN DecodeErr("UnexpectedEof")
        ELSE IF np.overflow /\ checks THEN DecodePanic("arithmetic overflow")
        ELSE frames_loop(desc, ClampPosition(np.val, Len(desc)), page_size.pos,
                         page_size.val, <<>>)

(***************************************************************************)
(* Descriptors given to the decoder.  A descriptor is laid out from a      *)
(* count field, a page size, fixed records and path strings, and may be    *)
(* cut short.                                                               *)
(***************************************************************************)
\* "/bin/a", "/lib/b.so", "/usr/lib/libc.so.6" and "/x" followed by byte FF
PathBinA == <<47, 98, 105, 110, 47, 97>>
PathLibB == <<47, 108, 105, 98, 47, 98, 46, 115, 111>>
PathLibc == <<47, 117, 115, 114, 47, 108, 105, 98, 47, 108, 105, 98, 99, 46,
              115, 111, 46, 54>>
PathBad == <<47, 120, 255>>
Paths == {PathBinA, PathLibB, PathLibc, PathBad}

\* (0x1000, 0x2000, 0x0), (0x5000, 0x6000, 0x500) and a record with
\* start > end
Rec(s, e, o) == [start |-> U64(s), end |-> U64(e), offset |-> U64(o)]
Records == {Rec(4096, 8192, 0), Rec(20480, 24576, 1280), Rec(8192, 4096, 0)}

\* 2^32 and 2^61 as u64
TwoPow32 == <<0, 0, 0, 0, 1, 0, 0, 0>>
TwoPow61 == <<0, 0, 0, 0, 0, 0, 0, 32>>
\* count fields: small counts, a count whose string table lies far beyond
\* any buffer, and counts c with c * 24 >= 2^64
Counts == {U64(n) : n \in 0..MaxCount}
          \cup {TwoPow32, TwoPow61, overflowing_add(TwoPow61, 1).val}

PageSize == U64(4096)

SeqsUpTo(S, n) == UNION {[1..k -> S] : k \in 0..n}

RECURSIVE Concat(_)
Concat(ss) == IF ss = <<>> THEN <<>> ELSE Head(ss) \o Concat(Tail(ss))

EncodeRecord(r) == ToNative(r.start) \o ToNative(r.end) \o ToNative(r.offset)

\* the bytes of a descriptor input
DescBytes(d) ==
    LET full == ToNative(d.count) \o ToNative(PageSize)
                \o Concat([i \in 1..Len(d.records) |-> EncodeRecord(d.records[i])])
                \o Concat([i \in 1..Len(d.paths) |-> d.paths[i] \o <<0>>])
    IN  SubSeq(full, 1, d.len)

FullLen(c, rs, ps) ==
    2 * U64Bytes + RecordBytes * Len(rs) + Len(Concat([i \in 1..Len(ps) |-> ps[i] \o <<0>>]))

\* the lengths a descriptor is cut to: up to MaxCut bytes off its end, and,
\* for a descriptor of a header alone, inside the header
CutLens(c, rs, ps) ==
    LET n == FullLen(c, rs, ps)
    IN  {n - k : k \in 0..MaxCut}
        \cup (IF rs = <<>> /\ ps = <<>> THEN {0, U64Bytes - 1, U64Bytes} ELSE {})

NoInput == [count |-> <<>>, records |-> <<>>, paths |-> <<>>, len |-> 0]
NoResult == [kind |-> "None", err |-> "", page_size |-> <<>>, frames |-> <<>>]

(***************************************************************************)
(* Files given to parse_coredump.  The ELF container is read by the object *)
(* crate; a file is modelled by what that reader finds in it: the kind its *)
(* magic announces, whether its header parses, its file type, and its      *)
(* program headers with the notes of each PT_NOTE segment.                  *)
(***************************************************************************)
Whole(c, rs, ps) == [count |-> c, records |-> rs, paths |-> ps, len |-> FullLen(c, rs, ps)]

\* descriptors of the mapped-file notes of the files: a table of one entry,
\* a descriptor cut inside its header, and a count c with c * 24 >= 2^64
DescOneEntry == Whole(U64(1), <<Rec(4096, 8192, 0)>>, <<PathBinA>>)
DescShort == [count |-> U64(1), records |-> <<>>, paths |-> <<>>, len |-> U64Bytes]
DescWrap == Whole(overflowing_add(TwoPow61, 1).val, <<Rec(20480, 24576, 1280)>>, <<PathLibB>>)
NoteDescs == {"one_entry", "short", "wrap"}
\* note.desc(): the descriptor bytes of a note
desc(note) ==
    DescBytes(CASE note.desc = "one_entry" -> DescOneEntry
                [] note.desc = "short" -> DescShort
                [] note.desc = "wrap" -> DescWrap
                [] OTHER -> NoInput)

\* a note of a PT_NOTE segment; ok = FALSE: the bytes there are no note
\* (NoteIterator::next returns an error)
Note(t, d) == [ok |-> TRUE, n_type |-> t, desc |-> d]
Malformed == [ok |-> FALSE, n_type |-> 0, desc |-> "none"]
NoteItems == {Note(NT_PRSTATUS, "none"), Malformed} \cup {Note(NT_FILE, d) : d \in NoteDescs}

\* the program headers with exactly j notes; data_ok = FALSE: the segment
\* lies outside the file (ProgramHeader::notes returns an error)
PhdrOptions(j) ==
    (IF j = 0 THEN {[p_type |-> PT_LOAD, data_ok |-> TRUE, notes |-> <<>>],
                    [p_type |-> PT_NOTE, data_ok |-> FALSE, notes |-> <<>>]}
     ELSE {})
    \cup {[p_type |-> PT_NOTE, data_ok |-> TRUE, notes |-> ns] : ns \in [1..j -> NoteItems]}

\* the tables of at most k program headers holding at most b notes in all
RECURSIVE PhdrSeqs(_, _)
PhdrSeqs(k, b) ==
    IF k = 0 THEN {<<>>}
    ELSE {<<>>} \cup UNION {{<<h>> \o r : h \in PhdrOptions(j), r \in PhdrSeqs(k - 1, b - j)}
                             : j \in 0..b}

ETypes == {ET_EXEC, ET_DYN, ET_CORE}

File(r, m, h, t, pok, ps) ==
    [readable |-> r, magic |-> m, header |-> h, e_type |-> t, phdrs_ok |-> pok, phdrs |-> ps]

NoFile == File(FALSE, "None", "none", 0, FALSE, <<>>)

\* files that end before any program header is read: a path that cannot be
\* read; fewer bytes than a magic, an unknown magic, other container kinds;
\* an ELF magic over a header that does not parse; an ELF whose program
\* header table does not parse
EarlyFiles ==
    {File(FALSE, "Unreadable", "none", 0, FALSE, <<>>)}
    \cup {File(TRUE, m, "none", 0, FALSE, <<>>) : m \in {"TooShort", "Unknown", "MachO64", "Pe64"}}
    \cup {File(TRUE, m, h, 0, FALSE, <<>>) : m \in {"Elf32", "Elf64"}, h \in {"truncated", "unsupported"}}
    \cup {File(TRUE, m, "ok", t, FALSE, <<>>) : m \in {"Elf32", "Elf64"}, t \in ETypes}

PhdrTables == PhdrSeqs(MaxPhdrs, MaxNotes)

(***************************************************************************)
(* The reader's operations, as parse_coredump and read_frames use them.    *)
(***************************************************************************)
\* object::FileKind::parse: an error for a file too short or of unknown
\* magic, else the kind
FileKind_parse(f) ==
    IF f.magic \in {"TooShort", "Unknown"}
    THEN [ok |-> FALSE, kind |-> "None"]
    ELSE [ok |-> TRUE, kind |-> f.magic]

\* Elf::parse(object)? and elf.endian()?
Elf_parse(f) == f.header = "ok"

\* elf.e_type(endian) != elf::ET_CORE
IsCoreFile_skipped(f) == TRUE
IsCoreFile(f) == f.e_type = ET_CORE

\* header.p_type(endian) == elf::PT_NOTE and header.notes(endian, object)
\* is Ok(Some(notes))
HasNotes(h) == h.p_type = PT_NOTE /\ h.data_ok

\* notes.next(): "Some" with a note, "None" at the end, "Err" on bytes that
\* are no note
notes_next(h, n) ==
    IF n > Len(h.notes) THEN "None"
    ELSE IF h.notes[n].ok THEN "Some" ELSE "Err"

\* note.n_type(endian) == elf::NT_FILE
IsMappedFile_prstatus(note) == note.n_type = NT_PRSTATUS
IsMappedFile(note) == note.n_type = NT_FILE

\* `let notes = parse_backtrace_notes(endian, &note)?; return Ok(notes);`:
\* whatever the decoder returns ends the scan
ScanStops_fallback(r) == r.kind # "Err"
ScanStops(r) == TRUE

Err(e) == [kind |-> "Err", err |-> e, page_size |-> <<>>, frames |-> <<>>]

VARIABLES
    overflow_checks,   \* the build panics on arithmetic overflow
    file,              \* the file at the path given to parse_coredump
    pc,                \* where parse_coredump is
    file_kind,         \* parse_coredump: file_kind
    hidx,              \* read_frames: the program header of the for loop
    nidx,              \* read_frames: the note the iterator notes is at
    inspected,         \* the notes whose type read_frames has looked at
    decoded,           \* the notes handed to parse_backtrace_notes
    failed,            \* the segments whose note iteration ended in an error
    rf_result,         \* what read_frames returned
    outcome,           \* how parse_coredump ended
    din,               \* DecoderSpec: the descriptor given to the decoder
    dres               \* DecoderSpec: what parse_backtrace_notes returned

vars == <<overflow_checks, file, pc, file_kind, hidx, nidx, inspected, decoded,
          failed, rf_result, outcome, din, dres>>
scan == <<hidx, nidx, inspected, decoded, failed>>

Init ==
    /\ overflow_checks \in BOOLEAN
    /\ \/ file \in EarlyFiles
       \/ \E m \in {"Elf32", "Elf64"}, t \in ETypes, ps \in PhdrTables :
             file = File(TRUE, m, "ok", t, TRUE, ps)
    /\ pc = "start"
    /\ file_kind = "None"
    /\ hidx = 0
    /\ nidx = 0
    /\ inspected = <<>>
    /\ decoded = <<>>
    /\ failed = {}
    /\ rf_result = NoResult
    /\ outcome = NoResult
    /\ din = NoInput
    /\ dres = NoResult

\* let bin_data = fs::read(path)?;
ReadFile ==
    /\ pc = "start"
    /\ IF file.readable
       THEN pc' = "file_kind" /\ outcome' = outcome
       ELSE pc' = "done" /\ outcome' = Err("Io")
    /\ UNCHANGED <<overflow_checks, file, file_kind, scan, rf_result, din, dres>>

\* let file_kind = object::FileKind::parse(&*bin_data)?;
FileKindParse ==
    /\ pc = "file_kind"
    /\ LET r == FileKind_parse(file)
       IN  IF r.ok
           THEN pc' = "dispatch" /\ file_kind' = r.kind /\ outcome' = outcome
           ELSE pc' = "done" /\ file_kind' = file_kind /\ outcome' = Err("ObjectError")
    /\ UNCHANGED <<overflow_checks, file, scan, rf_result, din, dres>>

\* match file_kind { Elf64 => read_frames, Elf32 => read_frames,
\*                   _ => Err(FileFormatNotSupported)? }
Dispatch ==
    /\ pc = "dispatch"
    /\ IF file_kind \in {"Elf64", "Elf32"}
       THEN pc' = "read_frames" /\ outcome' = outcome
       ELSE pc' = "done" /\ outcome' = Err("FileFormatNotSupported")
    /\ UNCHANGED <<overflow_checks, file, file_kind, scan, rf_result, din, dres>>

\* read_frames: let elf = Elf::parse(object)?; let endian = elf.endian()?;
ElfParse ==
    /\ pc = "read_frames"
    /\ IF Elf_parse(file)
       THEN pc' = "check_core" /\ rf_result' = rf_result
       ELSE pc' = "rf_return" /\ rf_result' = Err("ObjectError")
    /\ UNCHANGED <<overflow_checks, file, file_kind, scan, outcome, din, dres>>

\* if elf.e_type(endian) != elf::ET_CORE { Err(NotCoreFile)?; }
CheckCore ==
    /\ pc = "check_core"
    /\ IF IsCoreFile(file)
       THEN pc' = "program_headers" /\ rf_result' = rf_result
       ELSE pc' = "rf_return" /\ rf_result' = Err("NotCoreFile")
    /\ UNCHANGED <<overflow_checks, file, file_kind, scan, outcome, din, dres>>

\* elf.program_headers(endian, object)?
ProgramHeaders ==
    /\ pc = "program_headers"
    /\ IF file.phdrs_ok
       THEN pc' = "headers" /\ hidx' = 1 /\ rf_result' = rf_result
       ELSE pc' = "rf_return" /\ hidx' = hidx /\ rf_result' = Err("ObjectError")
    /\ UNCHANGED <<overflow_checks, file, file_kind, nidx, inspected, decoded, failed,
                   outcome, din, dres>>

\* one turn of `for header in ...`: the end of the loop and
\* Err(MissingDataSection)?, a header that is skipped, or a PT_NOTE segment
\* whose notes are iterated
NextHeader ==
    /\ pc = "headers"
    /\ IF hidx > Len(file.phdrs)
       THEN pc' = "rf_return" /\ rf_result' = Err("MissingDataSection")
            /\ hidx' = hidx /\ nidx' = nidx
       ELSE IF HasNotes(file.phdrs[hidx])
       THEN pc' = "notes" /\ nidx' = 1 /\ hidx' = hidx /\ rf_result' = rf_result
       ELSE pc' = "headers" /\ hidx' = hidx + 1 /\ nidx' = nidx /\ rf_result' = rf_result
    /\ UNCHANGED <<overflow_checks, file, file_kind, inspected, decoded, failed,
                   outcome, din, dres>>

\* one turn of `while let Ok(Some(note)) = notes.next()`
NotesNext ==
    /\ pc = "notes"
    /\ LET h == file.phdrs[hidx]
           r == notes_next(h, nidx)
           note == h.notes[nidx]
           res == parse_backtrace_notes(desc(note), overflow_checks)
       IN  IF r = "Some"
           THEN /\ inspected' = Append(inspected, <<hidx, nidx>>)
                /\ failed' = failed
                /\ IF IsMappedFile(note)
                   THEN /\ decoded' = Append(decoded, <<hidx, nidx>>)
                        /\ IF ScanStops(res)
                           THEN pc' = "rf_return" /\ rf_result' = res /\ nidx' = nidx
                           ELSE pc' = "notes" /\ rf_result' = rf_result /\ nidx' = nidx + 1
                        /\ hidx' = hidx
                   ELSE /\ decoded' = decoded
                        /\ pc' = "notes" /\ rf_result' = rf_result
                        /\ nidx' = nidx + 1 /\ hidx' = hidx
           ELSE /\ inspected' = inspected
                /\ decoded' = decoded
                /\ failed' = IF r = "Err" THEN failed \cup {hidx} ELSE failed
                /\ pc' = "headers" /\ hidx' = hidx + 1 /\ nidx' = nidx
                /\ rf_result' = rf_result
    /\ UNCHANGED <<overflow_checks, file, file_kind, outcome, din, dres>>

\* parse_coredump: `let notes = match file_kind { ... }?;` then
\* println!("Headers: {}", notes)
ReadFramesReturn ==
    /\ pc = "rf_return"
    /\ IF rf_result.kind = "Ok"
       THEN pc' = "symbolicate" /\ outcome' = outcome
       ELSE pc' = "done" /\ outcome' = [rf_result EXCEPT !.page_size = <<>>, !.frames = <<>>]
    /\ UNCHANGED <<overflow_checks, file, file_kind, scan, rf_result, din, dres>>

\* let frames = symbolicate_notes(notes)?;  symbolicate_notes is
\* todo!("Symbolize me!"): it panics, and neither its Err(SymbolizationFailed)
\* nor the Ok(Stacktrace { .. }) of parse_coredump is ever reached
Symbolicate ==
    /\ pc = "symbolicate"
    /\ pc' = "done"
    /\ outcome' = [kind |-> "Panic", err |-> "not yet implemented: Symbolize me!",
                   page_size |-> <<>>, frames |-> <<>>]
    /\ UNCHANGED <<overflow_checks, file, file_kind, scan, rf_result, din, dres>>

Next ==
    \/ ReadFile
    \/ FileKindParse
    \/ Dispatch
    \/ ElfParse
    \/ CheckCore
    \/ ProgramHeaders
    \/ NextHeader
    \/ NotesNext
    \/ ReadFramesReturn
    \/ Symbolicate

Spec == Init /\ [][Next]_vars

(***************************************************************************)
(* The decoder alone, on every descriptor laid out from Counts, Records and *)
(* Paths and cut to one of CutLens.                                         *)
(***************************************************************************)
DInit ==
    /\ overflow_checks \in BOOLEAN
    /\ \E c \in Counts, rs \in SeqsUpTo(Records, MaxRecords), ps \in SeqsUpTo(Paths, MaxPaths) :
          \E l \in CutLens(c, rs, ps) :
             din = [count |-> c, records |-> rs, paths |-> ps, len |-> l]
    /\ dres = NoResult
    /\ file = NoFile
    /\ pc = "decoder"
    /\ file_kind = "None"
    /\ hidx = 0
    /\ nidx = 0
    /\ inspected = <<>>
    /\ decoded = <<>>
    /\ failed = {}
    /\ rf_result = NoResult
    /\ outcome = NoResult

\* one call of parse_backtrace_notes
Decode ==
    /\ pc = "decoder"
    /\ dres.kind = "None"
    /\ dres' = parse_backtrace_notes(DescBytes(din), overflow_checks)
    /\ UNCHANGED <<overflow_checks, file, pc, file_kind, scan, rf_result, outcome, din>>

DNext == Decode

DecoderSpec == DInit /\ [][DNext]_vars

(***************************************************************************)
(* What the properties below speak of.                                      *)
(***************************************************************************)
IsElf(f) == f.magic \in {"Elf32", "Elf64"}

\* read_frames has ended
ReadFramesEnded == rf_result.kind # "None"

\* the notes of segment h from note n on that an iteration over the segment
\* reaches: those before the first bytes that are no note
RECURSIVE SegmentOrder(_, _, _)
SegmentOrder(f, h, n) ==
    IF n > Len(f.phdrs[h].notes) \/ ~f.phdrs[h].notes[n].ok THEN <<>>
    ELSE << <<h, n>> >> \o SegmentOrder(f, h, n + 1)

\* the notes of the file from program header h on, in program-header order
\* and then note order
RECURSIVE ScanOrder(_, _)
ScanOrder(f, h) ==
    IF h > Len(f.phdrs) THEN <<>>
    ELSE (IF f.phdrs[h].p_type = PT_NOTE /\ f.phdrs[h].data_ok
          THEN SegmentOrder(f, h, 1) ELSE <<>>) \o ScanOrder(f, h + 1)

NoteAt(f, p) == f.phdrs[p[1]].notes[p[2]]

\* the places in ScanOrder(f, 1) of the mapped-file notes
MappedPlaces(f) ==
    LET order == ScanOrder(f, 1)
    IN  {i \in 1..Len(order) : NoteAt(f, order[i]).n_type = NT_FILE}

Least(S) == CHOOSE i \in S : \A j \in S : i <= j

\* every note of every PT_NOTE segment is a note, and every PT_NOTE segment
\* lies in the file
WellFormedCore(f) ==
    /\ IsElf(f) /\ f.header = "ok" /\ f.e_type = ET_CORE /\ f.phdrs_ok
    /\ \A h \in 1..Len(f.phdrs) :
          /\ f.phdrs[h].data_ok
          /\ \A n \in 1..Len(f.phdrs[h].notes) : f.phdrs[h].notes[n].ok

\* some segment of the file holds a mapped-file note
HasMappedFileNote(f) ==
    \E h \in 1..Len(f.phdrs) : \E n \in 1..Len(f.phdrs[h].notes) :
        f.phdrs[h].notes[n].ok /\ f.phdrs[h].notes[n].n_type = NT_FILE

(***************************************************************************)
(* C1: for every input that is not a recognized ELF container (an unknown  *)
(* magic and an input too short for a magic included), parse_coredump ends *)
(* with FileFormatNotSupported and with no other error.                     *)
(***************************************************************************)
C1_NonElfIsFileFormatNotSupported ==
    (pc = "done" /\ file.readable /\ ~IsElf(file))
        => outcome = Err("FileFormatNotSupported")

(***************************************************************************)
(* C2: for every 32- or 64-bit ELF whose file type is not the core type,   *)
(* read_frames ends with NotCoreFile, and it does so before any program    *)
(* header or note is scanned: no note of such a file is ever inspected or  *)
(* decoded, even when the file holds a PT_NOTE segment with a mapped-file  *)
(* note.                                                                    *)
(***************************************************************************)
C2_NonCoreRejectedBeforeScan ==
    (IsElf(file) /\ file.header = "ok" /\ file.e_type # ET_CORE)
        => /\ hidx = 0 /\ nidx = 0 /\ inspected = <<>> /\ decoded = <<>>
           /\ pc \notin {"program_headers", "headers", "notes", "symbolicate"}
           /\ ReadFramesEnded => rf_result = Err("NotCoreFile")
           /\ pc = "done" => rf_result = Err("NotCoreFile") /\ outcome = Err("NotCoreFile")

\* an executable with a mapped-file note in a PT_NOTE segment was rejected
C2_Witness ==
    /\ pc = "done"
    /\ file.e_type = ET_EXEC /\ file.header = "ok"
    /\ HasMappedFileNote(file)
    /\ rf_result = Err("NotCoreFile")

(***************************************************************************)
(* C3: for every well-formed core-type ELF with no PT_NOTE program header, *)
(* or whose PT_NOTE segments hold no mapped-file note, read_frames ends    *)
(* with MissingDataSection, after visiting every program header in file    *)
(* order, and returns no table.                                             *)
(***************************************************************************)
C3_NoMappedFileNoteIsMissingDataSection ==
    (WellFormedCore(file) /\ ~HasMappedFileNote(file))
        => /\ rf_result.kind \in {"None", "Err"}
           /\ decoded = <<>>
           /\ ReadFramesEnded =>
                 /\ rf_result = Err("MissingDataSection")
                 /\ hidx = Len(file.phdrs) + 1
                 /\ inspected = ScanOrder(file, 1)
           /\ pc = "done" => ReadFramesEnded /\ outcome = Err("MissingDataSection")

\* a core file with two notes in its PT_NOTE segments, none a mapped-file
\* note, ended with MissingDataSection
C3_Witness ==
    /\ pc = "done"
    /\ WellFormedCore(file) /\ ~HasMappedFileNote(file)
    /\ Len(inspected) >= 2
    /\ rf_result = Err("MissingDataSection")

(***************************************************************************)
(* C4: for every descriptor laid out as entry_count, page_size,            *)
(* entry_count records of 24 bytes and then NUL-terminated path strings,   *)
(* parse_backtrace_notes returns a table of exactly entry_count entries,   *)
(* entry i holding the i-th record and the i-th path string; the number of *)
(* entries is entry_count, not the number of NUL-delimited segments after  *)
(* the records.                                                             *)
(***************************************************************************)
LaidOut(d) ==
    /\ d.count = U64(Len(d.records))
    /\ Len(d.paths) >= Len(d.records)
    /\ d.len = FullLen(d.count, d.records, d.paths)

EntryOf(d, i) ==
    [start |-> d.records[i].start, end |-> d.records[i].end,
     offset |-> d.records[i].offset, name |-> from_utf8_lossy(d.paths[i])]

C4_TableHasEntryCountEntries ==
    (dres.kind # "None" /\ LaidOut(din))
        => /\ dres.kind = "Ok"
           /\ Len(dres.frames) = Len(din.records)
           /\ \A i \in 1..Len(din.records) : dres.frames[i] = EntryOf(din, i)

(***************************************************************************)
(* C5: a truncated descriptor is rejected with an error and never yields a *)
(* table: when the descriptor has fewer bytes than 16 + entry_count * 24,  *)
(* or fewer than entry_count path strings can be recovered after the fixed *)
(* records, parse_backtrace_notes returns an error, not a table of fewer   *)
(* than entry_count entries.                                                *)
(***************************************************************************)
SmallCounts == {U64(n) : n \in 0..MaxCount}
CountOf(c) == CHOOSE n \in 0..MaxCount : U64(n) = c

NulCount(bs) == Cardinality({i \in 1..Len(bs) : bs[i] = 0})

\* fewer bytes than 16 + entry_count * 24 (every count of Counts that is
\* not small asks for more bytes than any descriptor has), or fewer than
\* entry_count strings after the records
Truncated(d) ==
    IF d.len < 2 * U64Bytes THEN TRUE
    ELSE IF d.count \notin SmallCounts THEN TRUE
    ELSE LET n == CountOf(d.count)
             strings == 2 * U64Bytes + RecordBytes * n
         IN  \/ d.len < strings
             \/ NulCount(SubSeq(DescBytes(d), strings + 1, d.len)) < n

C5_TruncatedIsRejected ==
    (dres.kind # "None" /\ Truncated(din)) => dres.kind = "Err"

(***************************************************************************)
(* C6: every invocation of parse_coredump ends in exactly one terminal     *)
(* outcome, a report or a single error value; in particular, for a core    *)
(* file whose mapped-file note decodes, the pipeline (decode, symbolicate,  *)
(* assembly) reaches one of the two and does not abort or panic.  Stated    *)
(* on that case: a run whose read_frames returned a table.                  *)
(***************************************************************************)
C6_DecodedCoreEndsInReportOrError ==
    (pc = "done" /\ rf_result.kind = "Ok") => outcome.kind \in {"Ok", "Err"}

(***************************************************************************)
(* C7: every entry of a table returned by parse_backtrace_notes has        *)
(* start < end, for every descriptor the decoder accepts.                   *)
(***************************************************************************)
C7_StartBelowEnd ==
    dres.kind = "Ok"
        => \A i \in 1..Len(dres.frames) :
              U64Less(dres.frames[i].start, dres.frames[i].end)

(***************************************************************************)
(* C8: when a core file holds several mapped-file notes, read_frames       *)
(* selects the first in program-header order and then note order, stops    *)
(* scanning, and its result is that of decoding this note alone; no later  *)
(* note is ever inspected or used as a fallback.                            *)
(***************************************************************************)
C8_FirstMappedFileNoteDecides ==
    LET order == ScanOrder(file, 1)
        places == MappedPlaces(file)
    IN  places # {} =>
          LET first == Least(places)
          IN  /\ Len(inspected) <= first
              /\ inspected = SubSeq(order, 1, Len(inspected))
              /\ decoded \in {<<>>, <<order[first]>>}
              /\ (ReadFramesEnded /\ hidx >= 1) =>
                    /\ inspected = SubSeq(order, 1, first)
                    /\ decoded = <<order[first]>>
                    /\ rf_result = parse_backtrace_notes(
                           desc(NoteAt(file, order[first])), overflow_checks)

\* a core file with two mapped-file notes, the first one cut short and the
\* second one well-formed: read_frames ended with the error of the first
C8_Witness ==
    LET order == ScanOrder(file, 1)
        places == MappedPlaces(file)
    IN  /\ pc = "done"
        /\ Cardinality(places) >= 2
        /\ NoteAt(file, order[Least(places)]).desc = "short"
        /\ \E i \in places : NoteAt(file, order[i]).desc = "one_entry"
        /\ rf_result = Err("UnexpectedEof")

(***************************************************************************)
(* C9: if the iteration over the notes of a PT_NOTE segment fails on a     *)
(* malformed note, read_frames ends with MissingDataSection, also when a   *)
(* later note or a later PT_NOTE segment holds a well-formed mapped-file   *)
(* note.                                                                    *)
(***************************************************************************)
C9_FailedIterationIsMissingDataSection ==
    (ReadFramesEnded /\ failed # {}) => rf_result = Err("MissingDataSection")

(***************************************************************************)
(* C10: for every descriptor and every 64-bit entry_count, the offset      *)
(* 16 + entry_count * 24 of the string table does not overflow 64 bits:    *)
(* the decoder neither panics on the computation nor takes a wrapped       *)
(* offset that lies inside the descriptor as the start of the string       *)
(* table; it ends with a table or an error value.                           *)
(***************************************************************************)
C10_StringTableOffsetDoesNotOverflow ==
    dres.kind # "None"
        => /\ dres.kind \in {"Ok", "Err"}
           /\ din.len >= 2 * U64Bytes =>
                 LET np == name_position(din.count, 2 * U64Bytes)
                 IN  ~(np.overflow /\ ClampPosition(np.val, din.len) < din.len)

====
